---- MODULE Spec2Model ----
(***************************************************************************)
(* Model of the batch video converter's incremental-processing metadata    *)
(* engine (src/src/metadata.py), the converter (src/src/convert.py) and    *)
(* the control loop that drives them over one output directory.            *)
(***************************************************************************)
EXTENDS Integers, Sequences, FiniteSets, TLC

(***************************************************************************)
(* Bounds of the model.                                                    *)
(***************************************************************************)
\* number of record updates (clock readings) over all runs
MaxClock == 3

(***************************************************************************)
(* Python values.                                                          *)
(***************************************************************************)
\* Python's None, where it shares a field with strings
None == "None"

\* the empty dict {}
EmptyDict == [k \in {} |-> None]

\* dict.pop(k, None): the dict without key k
Pop(d, k) == [x \in (DOMAIN d) \ {k} |-> d[x]]

\* d[k] = v on a dict
Put(d, k, v) == [x \in (DOMAIN d) \cup {k} |-> IF x = k THEN v ELSE d[x]]

\* dict.get(k, default)
Get(d, k, default) == IF k \in DOMAIN d THEN d[k] ELSE default

\* datetime.now().isoformat() at clock reading n
isoformat(n) == "T" \o ToString(n)

(***************************************************************************)
(* Paths.  An input root is given on the command line; RootL names the     *)
(* same directory as RootA through a symbolic link (or a ".." component).  *)
(* A file is a root as given plus the path below it.                       *)
(***************************************************************************)
RootA == "/videos/A"
RootB == "/videos/B"
RootL == "/link/A"
Roots == {RootA, RootB, RootL}

\* relative paths (as their components) of the video files found under every
\* root, in discovery order: a/b.mp4 and a_b.mp4
Discovered == << <<"a", "b.mp4">>, <<"a_b.mp4">> >>
Rels == {Discovered[i] : i \in 1..Len(Discovered)}

RECURSIVE Join(_, _)
\* the components of a path joined by a separator
Join(parts, sep) ==
    IF Len(parts) = 1 THEN parts[1]
    ELSE parts[1] \o sep \o Join(Tail(parts), sep)

\* str(path) of a relative path
str(rel) == Join(rel, "/")

\* Path.absolute(): prefixes the working directory, resolves nothing
absolute(root) == root

\* Path.resolve() on a root: symbolic links and ".." are resolved
resolve_root(root) == IF root = RootL THEN RootA ELSE root

\* Path.resolve() on a file path
resolve(file) == [root |-> resolve_root(file.root), rel |-> file.rel]

\* ValueError of PurePath.relative_to
NotRelative == <<>>

\* PurePath.relative_to(input_dir): lexical comparison of the leading components
relative_to(file, input_dir) ==
    IF file.root = input_dir THEN file.rel ELSE NotRelative

\* the files the discovery step hands to the loop for a root as given
InputFile(root, rel) == [root |-> root, rel |-> rel]

(***************************************************************************)
(* Configuration (src/src/config.py): five sections.                       *)
(***************************************************************************)
BaseConfig ==
    [video      |-> [codec |-> "hevc_videotoolbox", crf |-> 23,
                     pixel_format |-> "p010le", tag |-> "hvc1"],
     audio      |-> [codec |-> "aac", bitrate |-> "128k"],
     processing |-> [overwrite_output |-> TRUE],
     logging    |-> [level |-> "INFO"],
     files      |-> [input_extensions |-> <<".mp4">>, ignore |-> <<>>]]

\* configurations: the base one, every one-field change of it, and a change
\* of two sections at once
Configs ==
    {BaseConfig,
     [BaseConfig EXCEPT !.video.codec = "libx265"],
     [BaseConfig EXCEPT !.video.crf = 20],
     [BaseConfig EXCEPT !.video.pixel_format = "yuv420p"],
     [BaseConfig EXCEPT !.video.tag = "hev1"],
     [BaseConfig EXCEPT !.audio.codec = "libopus"],
     [BaseConfig EXCEPT !.audio.bitrate = "192k"],
     [BaseConfig EXCEPT !.processing.overwrite_output = FALSE],
     [BaseConfig EXCEPT !.logging.level = "DEBUG"],
     [BaseConfig EXCEPT !.files.input_extensions = <<".mp4", ".MP4">>],
     [BaseConfig EXCEPT !.files.ignore = <<"fcpbundle">>],
     [BaseConfig EXCEPT !.video.crf = 20, !.logging.level = "DEBUG"]}

\* the configurations the runs are started with
RunConfigs ==
    {BaseConfig,
     [BaseConfig EXCEPT !.video.crf = 20]}

\* Config.model_dump(): the nested dict of the five sections
model_dump(config) == config

\* a configuration file holding the YAML text of the given sections
ConfigData(data) == [kind |-> "data", data |-> data]

\* the configuration files a run may be given: none, one that is no YAML,
\* one whose CRF is out of range, and one for each run configuration
ConfigFiles ==
    {[kind |-> "missing"], [kind |-> "bad_yaml"],
     ConfigData([BaseConfig EXCEPT !.video.crf = 52])}
        \cup {ConfigData(config) : config \in RunConfigs}

\* the configuration file of a run that ends before it reads it
NotRead == [kind |-> "not_read"]

\* load_config: the validated configuration, or the exception it raises
load_config(config_file) ==
    CASE config_file.kind = "missing" ->
             [raised |-> "FileNotFoundError", config |-> BaseConfig]
      [] config_file.kind = "bad_yaml" ->
             [raised |-> "YAMLError", config |-> BaseConfig]
      [] config_file.kind = "data" ->
             IF config_file.data.video.crf \in 0..51
             THEN [raised |-> None, config |-> config_file.data]
             ELSE [raised |-> "ValidationError", config |-> BaseConfig]

(***************************************************************************)
(* Transcoder availability (src/src/utils.py).                             *)
(***************************************************************************)
\* how running "ffmpeg -version" may end
FfmpegOutcomes == {"ok", "FileNotFoundError"}

\* check_ffmpeg: TRUE when ffmpeg ran and exited with status zero
check_ffmpeg(outcome) ==
    IF outcome \in {"CalledProcessError", "FileNotFoundError"} THEN FALSE
    ELSE TRUE

(***************************************************************************)
(* Metadata store (src/src/metadata.py).  A store document is              *)
(* [input_dir, last_updated, processed_files]; processed_files maps a      *)
(* relative path to its Processing Record.                                 *)
(***************************************************************************)
\* the empty structure _load_metadata returns
EmptyMetadata ==
    [input_dir |-> None, last_updated |-> None, processed_files |-> EmptyDict]

\* content of a file that is not there
Absent == [kind |-> "absent"]

\* a file holding the JSON text of a store document
DocFile(doc) == [kind |-> "doc", doc |-> doc]

\* a file opened for writing whose JSON text is not complete yet
Partial == [kind |-> "partial"]

\* contents of the metadata file that are no store document: broken JSON
\* text, and bytes that are no UTF-8 text
CorruptKinds == {"bad_json", "bad_bytes"}

\* _load_metadata: the loaded document, or the exception that escapes
_load_metadata(file) ==
    CASE file.kind = "absent"    -> [raised |-> None, metadata |-> EmptyMetadata]
      [] file.kind = "doc"       -> [raised |-> None, metadata |-> file.doc]
      [] file.kind = "bad_json"  -> [raised |-> None, metadata |-> EmptyMetadata]
      [] file.kind = "partial"   -> [raised |-> None, metadata |-> EmptyMetadata]
      [] file.kind = "bad_bytes" -> [raised |-> "UnicodeDecodeError",
                                     metadata |-> EmptyMetadata]


\* initialize binding the current root over the one the store is bound to
initialize_rebinding(file, input_dir) ==
    LET loaded == _load_metadata(file)
        input_dir_str == absolute(input_dir)
    IN  IF loaded.raised # None THEN loaded
        ELSE [raised |-> None,
              metadata |-> [loaded.metadata EXCEPT !.input_dir = input_dir_str]]

\* initialize accepting a store bound to another root as it is
initialize_no_mismatch_check(file, input_dir) ==
    LET loaded == _load_metadata(file)
        input_dir_str == absolute(input_dir)
    IN  IF loaded.raised # None THEN loaded
        ELSE IF loaded.metadata.input_dir = None
             THEN [raised |-> None,
                   metadata |-> [loaded.metadata EXCEPT !.input_dir = input_dir_str]]
        ELSE loaded

\* initialize: load, then bind the input root or reject another one
initialize(file, input_dir) ==
    LET loaded == _load_metadata(file)
        input_dir_str == absolute(input_dir)
    IN  IF loaded.raised # None THEN loaded
        ELSE IF loaded.metadata.input_dir = None
             THEN [raised |-> None,
                   metadata |-> [loaded.metadata EXCEPT !.input_dir = input_dir_str]]
        ELSE IF loaded.metadata.input_dir # input_dir_str
             THEN [raised |-> "ValueError", metadata |-> loaded.metadata]
        ELSE loaded

\* current_config_dict with the logging section left in
current_config_dict_with_logging(current_config) ==
    Put(model_dump(current_config), "error_log_file_path", None)

\* the current configuration as should_skip_file compares it
current_config_dict(current_config) ==
    Put(Pop(model_dump(current_config), "logging"), "error_log_file_path", None)

\* a record as should_skip_file compares it
stored_config(file_metadata) ==
    Pop(Pop(Pop(Pop(file_metadata, "logging"), "processed_at"), "status"),
        "error_output")

\* should_skip_file without its check of the failed status, the artifact
\* path taken for a bookkeeping field
should_skip_file_no_retry(metadata, input_file, output_exists, current_config) ==
    LET relative_path == relative_to(resolve(input_file), metadata.input_dir)
        processed_files == metadata.processed_files
    IN  IF relative_path = NotRelative THEN FALSE
        ELSE IF ~output_exists THEN FALSE
        ELSE IF relative_path \notin DOMAIN processed_files THEN FALSE
        ELSE Pop(stored_config(processed_files[relative_path]),
                 "error_log_file_path")
                 = Pop(Pop(model_dump(current_config), "logging"),
                       "error_log_file_path")

\* should_skip_file taking an existing output file without a record for a
\* conversion already done
should_skip_file_by_output(metadata, input_file, output_exists, current_config) ==
    LET relative_path == relative_to(resolve(input_file), metadata.input_dir)
        processed_files == metadata.processed_files
    IN  IF relative_path = NotRelative THEN FALSE
        ELSE IF ~output_exists THEN FALSE
        ELSE IF relative_path \notin DOMAIN processed_files THEN TRUE
        ELSE IF Get(processed_files[relative_path], "status", "success") = "failed"
             THEN FALSE
        ELSE stored_config(processed_files[relative_path])
                 = current_config_dict(current_config)

\* should_skip_file without its check that the output file exists
should_skip_file_no_output_check(metadata, input_file, output_exists, current_config) ==
    LET relative_path == relative_to(resolve(input_file), metadata.input_dir)
        processed_files == metadata.processed_files
    IN  IF relative_path = NotRelative THEN FALSE
        ELSE IF relative_path \notin DOMAIN processed_files THEN FALSE
        ELSE IF Get(processed_files[relative_path], "status", "success") = "failed"
             THEN FALSE
        ELSE stored_config(processed_files[relative_path])
                 = current_config_dict(current_config)

\* should_skip_file: TRUE when the file needs no conversion
should_skip_file(metadata, input_file, output_exists, current_config) ==
    LET relative_path == relative_to(resolve(input_file), metadata.input_dir)
        processed_files == metadata.processed_files
    IN  IF relative_path = NotRelative THEN FALSE
        ELSE IF ~output_exists THEN FALSE
        ELSE IF relative_path \notin DOMAIN processed_files THEN FALSE
        ELSE IF Get(processed_files[relative_path], "status", "success") = "failed"
             THEN FALSE
        ELSE stored_config(processed_files[relative_path])
                 = current_config_dict(current_config)

\* should_skip_file comparing the stored record itself, not a copy of it:
\* the fields it removes for the comparison are gone from the store
should_skip_file_store_aliased(metadata, input_file, output_exists, current_config) ==
    LET relative_path == relative_to(resolve(input_file), metadata.input_dir)
        processed_files == metadata.processed_files
    IN  IF relative_path = NotRelative THEN metadata
        ELSE IF ~output_exists THEN metadata
        ELSE IF relative_path \notin DOMAIN processed_files THEN metadata
        ELSE IF Get(processed_files[relative_path], "status", "success") = "failed"
             THEN metadata
        ELSE [metadata EXCEPT !.processed_files[relative_path] =
                  stored_config(@)]

\* the store in memory after a call of should_skip_file: the fields are
\* removed from a copy of the record, the record stays as it is
should_skip_file_store(metadata, input_file, output_exists, current_config) ==
    LET relative_path == relative_to(resolve(input_file), metadata.input_dir)
        processed_files == metadata.processed_files
    IN  IF relative_path = NotRelative THEN metadata
        ELSE IF ~output_exists THEN metadata
        ELSE IF relative_path \notin DOMAIN processed_files THEN metadata
        ELSE IF Get(processed_files[relative_path], "status", "success") = "failed"
             THEN metadata
        ELSE LET file_metadata == processed_files[relative_path]
                 copy == file_metadata
                 compared == stored_config(copy)
             IN  [metadata EXCEPT !.processed_files[relative_path] =
                      file_metadata]

\* the Processing Record both mark_processed and mark_failed start from:
\* the configuration without its logging section, stamped
config_dict(config, now, status) ==
    Put(Put(Pop(model_dump(config), "logging"), "processed_at", isoformat(now)),
        "status", status)

\* mark_processed returning before it records anything
mark_processed_unrecorded(metadata, input_file, config, now) ==
    [updated |-> FALSE, metadata |-> metadata]

\* mark_processed updating the previous record of the file in place: the
\* fields of an earlier failure that it does not stamp stay
mark_processed_merging(metadata, input_file, config, now) ==
    LET relative_path == relative_to(resolve(input_file), metadata.input_dir)
        previous == Get(metadata.processed_files, relative_path,
                        [error_log_file_path |-> None])
        stamped == config_dict(config, now, "success")
    IN  IF relative_path = NotRelative
        THEN [updated |-> FALSE, metadata |-> metadata]
        ELSE [updated |-> TRUE,
              metadata |-> [metadata EXCEPT !.processed_files =
                  Put(@, relative_path,
                      [k \in DOMAIN previous \cup DOMAIN stamped |->
                          IF k \in DOMAIN stamped THEN stamped[k]
                          ELSE previous[k]])]]

\* mark_processed up to its flush: the store with the success record, and
\* whether a record was written at all
mark_processed(metadata, input_file, config, now) ==
    LET relative_path == relative_to(resolve(input_file), metadata.input_dir)
    IN  IF relative_path = NotRelative
        THEN [updated |-> FALSE, metadata |-> metadata]
        ELSE [updated |-> TRUE,
              metadata |-> [metadata EXCEPT !.processed_files =
                  Put(@, relative_path,
                      Put(config_dict(config, now, "success"),
                          "error_log_file_path", None))]]

\* get_failed_files returning every record
get_failed_files_all(metadata) == metadata.processed_files

\* get_failed_files: the records of processed_files whose status is failed
get_failed_files(metadata) ==
    LET processed_files == metadata.processed_files
        failed == {file_path \in DOMAIN processed_files :
                      Get(processed_files[file_path], "status", "success")
                          = "failed"}
    IN  [file_path \in failed |-> processed_files[file_path]]

\* the failed-conversions folder below the output directory
failed_folder == "/out/failed_conversions"

\* write_failed_logs: the artifact's flat file name, its path and its content
write_failed_logs(file_path, error_output) ==
    LET safe_filename == Join(file_path, "_")
    IN  [name    |-> safe_filename,
         path    |-> failed_folder \o "/" \o safe_filename \o ".txt",
         content |-> error_output \o "\n"]

\* mark_failed before write_failed_logs returns: the record has no
\* error_log_file_path key yet
mark_failed_pending(metadata, input_file, config, now) ==
    LET relative_path == relative_to(resolve(input_file), metadata.input_dir)
    IN  IF relative_path = NotRelative
        THEN [updated |-> FALSE, metadata |-> metadata]
        ELSE [updated |-> TRUE,
              metadata |-> [metadata EXCEPT !.processed_files =
                  Put(@, relative_path, config_dict(config, now, "failed"))]]

\* mark_failed with the artifact's path never attached to the record
mark_failed_no_path(metadata, input_file, config, error_output, now) ==
    mark_failed_pending(metadata, input_file, config, now)

\* mark_failed resolving the bound root before it takes the relative path:
\* a file reached through a link is recorded like any other
mark_failed_resolved_root(metadata, input_file, config, error_output, now) ==
    LET relative_path == relative_to(resolve(input_file),
                                     resolve_root(metadata.input_dir))
    IN  IF relative_path = NotRelative
        THEN [updated |-> FALSE, metadata |-> metadata]
        ELSE [updated |-> TRUE,
              metadata |-> [metadata EXCEPT !.processed_files =
                  Put(@, relative_path,
                      Put(config_dict(config, now, "failed"),
                          "error_log_file_path",
                          write_failed_logs(relative_path, error_output).path))]]

\* mark_failed up to its flush, the artifact written: the record carries the
\* artifact's path
mark_failed(metadata, input_file, config, error_output, now) ==
    LET relative_path == relative_to(resolve(input_file), metadata.input_dir)
        pending == mark_failed_pending(metadata, input_file, config, now)
    IN  IF ~pending.updated THEN pending
        ELSE [updated |-> TRUE,
              metadata |-> [pending.metadata EXCEPT
                  !.processed_files[relative_path] =
                      Put(@, "error_log_file_path",
                          write_failed_logs(relative_path, error_output).path)]]

\* the metadata file, and the temporary sibling _save_metadata writes first
metadata_file == "/out/.batch-video-metadata.json"
\* _save_metadata writing the metadata file in place
temp_file_in_place == metadata_file
temp_file == "/out/.batch-video-metadata.tmp"
StoreFiles == {metadata_file, temp_file}

\* Path.replace: rename src over dst in one step
replace(fs, src, dst) ==
    IF src = dst THEN fs ELSE [fs EXCEPT ![dst] = fs[src], ![src] = Absent]

\* temp_file.unlink() when temp_file.exists()
unlink(fs, name) == [fs EXCEPT ![name] = Absent]

(***************************************************************************)
(* Converter (src/src/convert.py).                                         *)
(***************************************************************************)
\* what the transcoder may print on its diagnostic stream when it fails
Stderrs == {"", "moov atom not found"}

\* str(e) of the CalledProcessError
CalledProcessErrorText == "Command returned non-zero exit status 1."

\* convert_file handing on the diagnostic stream as it is
convert_file_raw_stderr(returncode, stderr) ==
    IF returncode = 0
    THEN [success |-> TRUE, error_output |-> None]
    ELSE [success |-> FALSE, error_output |-> stderr]

\* convert_file's result for an exit status and a diagnostic stream
convert_file(returncode, stderr) ==
    IF returncode = 0
    THEN [success |-> TRUE, error_output |-> None]
    ELSE [success |-> FALSE,
          error_output |-> IF stderr # "" THEN stderr ELSE CalledProcessErrorText]

\* str(path) of a file path: the root as given, then the path below it
path_str(file) == file.root \o "/" \o str(file.rel)

\* the output file convert_file is handed for a relative path
OutputFile(rel) == [root |-> "/out", rel |-> rel]

\* str(int): the decimal digits
str_int(n) == ToString(n)

\* cmd with the overwrite flag put after the output file
cmd_overwrite_last(input_file, output_file, config) ==
    LET cmd0 == <<"ffmpeg",
                  "-i", path_str(input_file),
                  "-c:v", config.video.codec,
                  "-crf", str_int(config.video.crf),
                  "-pix_fmt", config.video.pixel_format,
                  "-c:a", config.audio.codec,
                  "-b:a", config.audio.bitrate,
                  "-tag:v", config.video.tag>>
        cmd1 == Append(cmd0, path_str(output_file))
    IN  IF config.processing.overwrite_output THEN Append(cmd1, "-y") ELSE cmd1

\* the argument list convert_file hands to subprocess.run
cmd(input_file, output_file, config) ==
    LET cmd0 == <<"ffmpeg",
                  "-i", path_str(input_file),
                  "-c:v", config.video.codec,
                  "-crf", str_int(config.video.crf),
                  "-pix_fmt", config.video.pixel_format,
                  "-c:a", config.audio.codec,
                  "-b:a", config.audio.bitrate,
                  "-tag:v", config.video.tag>>
        cmd1 == IF config.processing.overwrite_output
                THEN Append(cmd0, "-y") ELSE cmd0
    IN  Append(cmd1, path_str(output_file))

(***************************************************************************)
(* Utilities (src/src/utils.py).  Regular expressions are those made of    *)
(* literal characters, "." for any character, a leading "^" and a          *)
(* trailing "$"; a pattern that starts with a repetition sign or opens a   *)
(* character class it never closes cannot be compiled.                     *)
(***************************************************************************)
\* the longest lists of files and of ignore patterns that are tried
MaxFiles == 2
MaxPatterns == 2

\* ignore patterns: a folder, a root, a file name, and two that do not
\* compile (a shell glob and an open character class)
Patterns == {"a/", "^/videos/B", "_b.mp4$", "*.mp4", "["}

\* the character of a string at a position
CharAt(string, i) == SubSeq(string, i, i)

\* re.compile(pattern) raises re.error
re_error(pattern) ==
    \/ pattern # "" /\ CharAt(pattern, 1) \in {"*", "+", "?"}
    \/ \E i \in 1..Len(pattern) :
          /\ CharAt(pattern, i) = "["
          /\ \A j \in (i + 1)..Len(pattern) : CharAt(pattern, j) # "]"

RECURSIVE match_here(_, _)
\* the pattern matches the string from its first character on
match_here(pattern, string) ==
    IF pattern = "" THEN TRUE
    ELSE IF pattern = "$" THEN string = ""
    ELSE IF string = "" THEN FALSE
    ELSE /\ CharAt(pattern, 1) \in {".", CharAt(string, 1)}
         /\ match_here(Tail(pattern), Tail(string))

\* re.search(pattern, string) of a pattern that compiles: a match anywhere
\* in the string
re_search(pattern, string) ==
    IF pattern # "" /\ CharAt(pattern, 1) = "^"
    THEN match_here(Tail(pattern), string)
    ELSE \E i \in 1..(Len(string) + 1) :
            match_here(pattern, SubSeq(string, i, Len(string)))

RECURSIVE should_ignore_until_invalid(_, _)
\* should_ignore leaving the loop over the patterns at the first one that
\* does not compile
should_ignore_until_invalid(file_str, ignore_patterns) ==
    IF ignore_patterns = <<>> THEN FALSE
    ELSE IF re_error(Head(ignore_patterns)) THEN FALSE
    ELSE IF re_search(Head(ignore_patterns), file_str) THEN TRUE
    ELSE should_ignore_until_invalid(file_str, Tail(ignore_patterns))

RECURSIVE should_ignore(_, _)
\* the loop over the patterns for one file: TRUE at the first pattern that
\* matches, a pattern that does not compile passed over
should_ignore(file_str, ignore_patterns) ==
    IF ignore_patterns = <<>> THEN FALSE
    ELSE IF re_error(Head(ignore_patterns))
         THEN should_ignore(file_str, Tail(ignore_patterns))
    ELSE IF re_search(Head(ignore_patterns), file_str) THEN TRUE
    ELSE should_ignore(file_str, Tail(ignore_patterns))

RECURSIVE filtered_files(_, _)
\* the loop over the files: those not ignored, appended one by one
filtered_files(video_files, ignore_patterns) ==
    IF video_files = <<>> THEN <<>>
    ELSE LET file_path == Head(video_files)
             rest == filtered_files(Tail(video_files), ignore_patterns)
         IN  IF should_ignore(path_str(file_path), ignore_patterns)
             THEN rest ELSE <<file_path>> \o rest

\* filter_ignored_files
filter_ignored_files(video_files, ignore_patterns) ==
    IF ignore_patterns = <<>> THEN video_files
    ELSE filtered_files(video_files, ignore_patterns)

(***************************************************************************)
(* State.                                                                  *)
(***************************************************************************)
VARIABLES
    files,        \* contents of the metadata file and of its temporary sibling
    failed_logs,  \* failed-conversions folder: path of an artifact -> content
    outputs,      \* relative paths whose output file exists
    metadata,     \* MetadataManager._metadata of the running process
    pc,           \* position of the process: idle, loop, save_*, done, aborted
    run,          \* what the run has read of its inputs: the transcoder
                  \* check, the configuration file, the input directory
    idx,          \* index in Discovered of the file the loop is at
    counts,       \* success_count, fail_count, skip_count
    outcome,      \* result of the conversion whose record is being flushed
    raised,       \* the exception that ended the run, or None
    now,          \* clock
    dirty,        \* history: a flush failed and none completed since
    hist,         \* history: what the run completed just before this one left,
                  \* when it had this run's input directory and configuration,
                  \* no failed conversion and no failed flush
    first_root,   \* history: the root of the first initialize that returned
                  \* while the metadata file held no document
    last_root,    \* history: input_dir of the last document the metadata
                  \* file was replaced with
    conversion,   \* the transcoder run whose record update is in progress
    last_failure, \* history: for each artifact, the file and the error
                  \* output of the most recent mark_failed that wrote it
    call          \* a call of filter_ignored_files or of convert_file on its
                  \* own: the arguments, and the list it has built

vars == <<files, failed_logs, outputs, metadata, pc, run, idx, counts, outcome,
          raised, now, dirty, hist, first_root,
          last_root,
          conversion,
          last_failure,
          call>>

Stopped == {"idle", "done", "aborted"}
Saving == {"save_open", "save_write", "save_replace"}
Running == {"loop"} \cup Saving

NoRun ==
    [input_dir |-> RootA, config |-> BaseConfig, ffmpeg |-> "ok",
     config_file |-> ConfigData(BaseConfig)]
\* no transcoder run, and one with its exit status, its diagnostic stream
\* and what convert_file returned for it
NoConversion == [called |-> FALSE]
Conversion(returncode, stderr) ==
    [called |-> TRUE, returncode |-> returncode, stderr |-> stderr,
     result |-> convert_file(returncode, stderr)]

\* no utility call, and the calls that are tried: filter_ignored_files on
\* lists of files and of patterns, convert_file (up to its argument list)
\* on an input file, an output file and a configuration
NoCall == [fn |-> "none", done |-> FALSE]
SeqsUpTo(S, n) == UNION {[1..k -> S] : k \in 0..n}
VideoFiles == {InputFile(root, rel) : root \in {RootA, RootB}, rel \in Rels}
FilterCalls ==
    {[fn |-> "filter_ignored_files", video_files |-> video_files,
      ignore_patterns |-> ignore_patterns, done |-> FALSE, returned |-> <<>>] :
        video_files \in SeqsUpTo(VideoFiles, MaxFiles),
        ignore_patterns \in SeqsUpTo(Patterns, MaxPatterns)}
ConvertCalls ==
    {[fn |-> "convert_file", input_file |-> InputFile(root, rel[1]),
      output_file |-> OutputFile(rel[2]), config |-> config,
      done |-> FALSE, returned |-> <<>>] :
        root \in Roots, rel \in Rels \X Rels, config \in Configs}

NoCounts == [success_count |-> 0, fail_count |-> 0, skip_count |-> 0]
NoHist == [valid |-> FALSE]

\* the metadata file holds a store document
Persisted == files[metadata_file].kind = "doc"

\* processed_files as the next run will load it
PersistedProcessedFiles ==
    IF files[metadata_file].kind = "doc"
    THEN files[metadata_file].doc.processed_files
    ELSE EmptyDict

Init ==
    /\ files = [n \in StoreFiles |-> Absent]
    /\ failed_logs = EmptyDict
    /\ outputs = {}
    /\ metadata = EmptyMetadata
    /\ pc = "idle"
    /\ run = NoRun
    /\ idx = 0
    /\ counts = NoCounts
    /\ outcome = "none"
    /\ raised = None
    /\ now = 0
    /\ dirty = FALSE
    /\ hist = NoHist
    /\ first_root = None
    /\ last_root = None
    /\ conversion = NoConversion
    /\ last_failure = EmptyDict
    /\ call = NoCall

\* the process is gone: nothing of it is left but the files
ProcessGone ==
    /\ pc' = "idle"
    /\ metadata' = EmptyMetadata
    /\ run' = NoRun
    /\ idx' = 0
    /\ counts' = NoCounts
    /\ outcome' = "none"
    /\ raised' = None
    /\ dirty' = FALSE
    /\ hist' = NoHist
    /\ conversion' = NoConversion

(***************************************************************************)
(* Control loop.                                                           *)
(***************************************************************************)
\* a run starts: the transcoder is looked for, the configuration loaded and
\* the store initialized for the input directory; an unavailable
\* transcoder, a missing or invalid configuration, a root mismatch or an
\* unreadable store ends the run before any file
StartRun(input_dir, ffmpeg, config_file) ==
    LET available == check_ffmpeg(ffmpeg)
        c == IF available THEN load_config(config_file)
             ELSE [raised |-> None, config |-> BaseConfig]
        r == initialize(files[metadata_file], input_dir)
        error == IF ~available THEN "SystemExit"
                 ELSE IF c.raised # None THEN c.raised
                 ELSE r.raised
    IN  /\ pc \in Stopped
        /\ run' = IF ~available
                  THEN [NoRun EXCEPT !.ffmpeg = ffmpeg, !.config_file = NotRead]
                  ELSE IF c.raised # None
                  THEN [NoRun EXCEPT !.config_file = config_file]
                  ELSE [input_dir |-> input_dir, config |-> c.config,
                        ffmpeg |-> ffmpeg, config_file |-> config_file]
        /\ counts' = NoCounts
        /\ outcome' = "none"
        /\ dirty' = FALSE
        /\ raised' = error
        /\ IF error = None
           THEN /\ pc' = "loop"
                /\ idx' = 1
                /\ metadata' = r.metadata
                /\ hist' = IF /\ pc = "done"
                              /\ run.input_dir = input_dir
                              /\ run.config = c.config
                              /\ counts.fail_count = 0
                              /\ ~dirty
                           THEN [valid |-> TRUE,
                                 processed_files |-> PersistedProcessedFiles]
                           ELSE NoHist
                /\ first_root' = IF first_root = None /\ ~Persisted
                                 THEN absolute(input_dir) ELSE first_root
           ELSE /\ pc' = "aborted"
                /\ idx' = 0
                /\ metadata' = EmptyMetadata
                /\ hist' = NoHist
                /\ first_root' = first_root
        /\ UNCHANGED <<files, failed_logs, outputs, now, last_root, conversion,
                       last_failure, call>>

\* the file the loop is at, and whether its output file exists
CurrentRel == Discovered[idx]
CurrentFile == InputFile(run.input_dir, CurrentRel)
OutputExists == CurrentRel \in outputs

AtFile == pc = "loop" /\ idx <= Len(Discovered)

\* the store after the loop's call of should_skip_file for the file it is at
Checked == should_skip_file_store(metadata, CurrentFile, OutputExists, run.config)

\* the loop going on to the next file without counting the one it leaves
NextFile_uncounted(counter) ==
    /\ pc' = "loop"
    /\ idx' = idx + 1
    /\ counts' = counts
    /\ outcome' = "none"

\* the loop goes on to the next file, one counter incremented
NextFile(counter) ==
    /\ pc' = "loop"
    /\ idx' = idx + 1
    /\ counts' = [counts EXCEPT ![counter] = @ + 1]
    /\ outcome' = "none"

\* the record update kept in memory only, no flush after it
ToFlushBatched(updated_metadata, result) ==
    /\ metadata' = updated_metadata
    /\ now' = now + 1
    /\ NextFile(result)

\* the record update goes on to its flush: _save_metadata stamps last_updated
ToFlush(updated_metadata, result) ==
    /\ metadata' = [updated_metadata EXCEPT !.last_updated = isoformat(now)]
    /\ now' = now + 1
    /\ outcome' = result
    /\ pc' = "save_open"
    /\ UNCHANGED <<idx, counts>>

\* should_skip_file says skip
SkipFile ==
    /\ AtFile
    /\ should_skip_file(metadata, CurrentFile, OutputExists, run.config)
    /\ metadata' = Checked
    /\ NextFile("skip_count")
    /\ UNCHANGED <<files, failed_logs, outputs, run, raised, now, dirty, hist,
                   first_root, last_root, conversion, last_failure, call>>

\* the transcoder exits with status zero, whatever it has printed on its
\* diagnostic stream: mark_processed
ConvertSuccess ==
    /\ AtFile
    /\ now < MaxClock
    /\ ~should_skip_file(metadata, CurrentFile, OutputExists, run.config)
    /\ \E stderr \in Stderrs :
         LET result == convert_file(0, stderr)
             m == mark_processed(Checked, CurrentFile, run.config, now)
         IN  /\ result.success
             /\ outputs' = outputs \cup {CurrentRel}
             /\ IF m.updated
                THEN /\ conversion' = Conversion(0, stderr)
                     /\ ToFlush(m.metadata, "success_count")
                ELSE /\ conversion' = NoConversion
                     /\ NextFile("success_count")
                     /\ metadata' = Checked
                     /\ UNCHANGED now
    /\ UNCHANGED <<files, failed_logs, run, raised, dirty, hist, first_root,
                   last_root, last_failure, call>>

\* the transcoder exits nonzero, leaving an output file or not: mark_failed,
\* the artifact written
ConvertFailure ==
    /\ AtFile
    /\ now < MaxClock
    /\ ~should_skip_file(metadata, CurrentFile, OutputExists, run.config)
    /\ \E stderr \in Stderrs, left \in SUBSET {CurrentRel} :
         LET result == convert_file(1, stderr)
             m == mark_failed(Checked, CurrentFile, run.config,
                              result.error_output, now)
             log == write_failed_logs(CurrentRel, result.error_output)
         IN  /\ ~result.success
             /\ outputs' = outputs \cup left
             /\ IF m.updated
                THEN /\ failed_logs' = Put(failed_logs, log.path, log.content)
                     /\ last_failure' =
                            Put(last_failure, log.path,
                                [file |-> CurrentRel,
                                 error_output |-> result.error_output])
                     /\ conversion' = Conversion(1, stderr)
                     /\ ToFlush(m.metadata, "fail_count")
                ELSE /\ conversion' = NoConversion
                     /\ NextFile("fail_count")
                     /\ metadata' = Checked
                     /\ UNCHANGED <<now, failed_logs, last_failure>>
    /\ UNCHANGED <<files, run, raised, dirty, hist, first_root, last_root,
                   call>>

\* the transcoder exits nonzero and write_failed_logs cannot write: the
\* OSError leaves mark_failed (the record already in memory without its
\* path) and ends the process, of which the exception is all that is left
ConvertFailureLogError ==
    /\ AtFile
    /\ now < MaxClock
    /\ ~should_skip_file(metadata, CurrentFile, OutputExists, run.config)
    /\ mark_failed_pending(Checked, CurrentFile, run.config, now).updated
    /\ metadata' = EmptyMetadata
    /\ pc' = "aborted"
    /\ raised' = "OSError"
    /\ run' = NoRun
    /\ idx' = 0
    /\ counts' = NoCounts
    /\ dirty' = FALSE
    /\ hist' = NoHist
    /\ UNCHANGED <<files, failed_logs, outputs, outcome, now, first_root,
                   last_root, conversion, last_failure, call>>

(***************************************************************************)
(* _save_metadata, one file-system operation at a time.                    *)
(***************************************************************************)
\* open(temp_file, 'w')
SaveOpen ==
    /\ pc = "save_open"
    /\ files' = [files EXCEPT ![temp_file] = Partial]
    /\ pc' = "save_write"
    /\ UNCHANGED <<failed_logs, outputs, metadata, run, idx, counts, outcome,
                   raised, now, dirty, hist, first_root, last_root, conversion,
                   last_failure, call>>

\* json.dump and close: the document is in the temporary file
SaveWrite ==
    /\ pc = "save_write"
    /\ files' = [files EXCEPT ![temp_file] = DocFile(metadata)]
    /\ pc' = "save_replace"
    /\ UNCHANGED <<failed_logs, outputs, metadata, run, idx, counts, outcome,
                   raised, now, dirty, hist, first_root, last_root, conversion,
                   last_failure, call>>

\* temp_file.replace(metadata_file); mark_* returns to the loop
SaveReplace ==
    /\ pc = "save_replace"
    /\ files' = replace(files, temp_file, metadata_file)
    /\ dirty' = FALSE
    /\ first_root' = None
    /\ last_root' = metadata.input_dir
    /\ conversion' = NoConversion
    /\ NextFile(outcome)
    /\ UNCHANGED <<failed_logs, outputs, metadata, run, raised, now, hist,
                   last_failure, call>>

\* an OSError in open, json.dump or replace: logged, the temporary file
\* removed; mark_* returns to the loop
SaveError ==
    /\ pc \in Saving
    /\ files' = unlink(files, temp_file)
    /\ dirty' = TRUE
    /\ conversion' = NoConversion
    /\ NextFile(outcome)
    /\ UNCHANGED <<failed_logs, outputs, metadata, run, raised, now, hist,
                   first_root, last_root, last_failure, call>>

\* the loop is over: the summary is printed, exit code zero
Finish ==
    /\ pc = "loop"
    /\ idx > Len(Discovered)
    /\ pc' = "done"
    /\ metadata' = EmptyMetadata
    /\ UNCHANGED <<files, failed_logs, outputs, run, idx, counts, outcome,
                   raised, now, dirty, hist, first_root, last_root, conversion,
                   last_failure, call>>

(***************************************************************************)
(* Environment.                                                            *)
(***************************************************************************)
\* the process is killed
Crash ==
    /\ pc \in Running
    /\ ProcessGone
    /\ UNCHANGED <<files, failed_logs, outputs, now, first_root, last_root,
                   last_failure, call>>

\* somebody removes an output file between two runs
RemoveOutput(rel) ==
    /\ pc \in Stopped
    /\ rel \in outputs
    /\ outputs' = outputs \ {rel}
    /\ ProcessGone
    /\ UNCHANGED <<files, failed_logs, now, first_root, last_root,
                   last_failure, call>>

\* the metadata file is damaged between two runs
CorruptMetadataFile(kind) ==
    /\ pc \in Stopped
    /\ files[metadata_file].kind # kind
    /\ files' = [files EXCEPT ![metadata_file] = [kind |-> kind]]
    /\ first_root' = None
    /\ ProcessGone
    /\ UNCHANGED <<failed_logs, outputs, now, last_root, last_failure, call>>

Next ==
    \/ \E input_dir \in Roots, ffmpeg \in FfmpegOutcomes, config_file \in ConfigFiles :
          StartRun(input_dir, ffmpeg, config_file)
    \/ SkipFile
    \/ ConvertSuccess
    \/ ConvertFailure
    \/ ConvertFailureLogError
    \/ SaveOpen
    \/ SaveWrite
    \/ SaveReplace
    \/ SaveError
    \/ Finish
    \/ Crash
    \/ \E rel \in Rels : RemoveOutput(rel)
    \/ \E kind \in CorruptKinds : CorruptMetadataFile(kind)

Spec == Init /\ [][Next]_vars

(***************************************************************************)
(* The utility functions on their own: a call is drawn with its arguments, *)
(* the function is applied to them, and the program is not running.        *)
(***************************************************************************)
program_vars == <<files, failed_logs, outputs, metadata, pc, run, idx, counts,
                  outcome, raised, now, dirty, hist, first_root, last_root,
                  conversion, last_failure>>

UtilityInit ==
    /\ call \in FilterCalls \cup ConvertCalls
    /\ files = [n \in StoreFiles |-> Absent]
    /\ failed_logs = EmptyDict
    /\ outputs = {}
    /\ metadata = EmptyMetadata
    /\ pc = "idle"
    /\ run = NoRun
    /\ idx = 0
    /\ counts = NoCounts
    /\ outcome = "none"
    /\ raised = None
    /\ now = 0
    /\ dirty = FALSE
    /\ hist = NoHist
    /\ first_root = None
    /\ last_root = None
    /\ conversion = NoConversion
    /\ last_failure = EmptyDict

\* filter_ignored_files returns
FilterIgnoredFiles ==
    /\ call.fn = "filter_ignored_files"
    /\ ~call.done
    /\ call' = [call EXCEPT
                   !.done = TRUE,
                   !.returned = filter_ignored_files(call.video_files,
                                                     call.ignore_patterns)]
    /\ UNCHANGED program_vars

\* convert_file has built the argument list and hands it to subprocess.run
BuildCmd ==
    /\ call.fn = "convert_file"
    /\ ~call.done
    /\ call' = [call EXCEPT
                   !.done = TRUE,
                   !.returned = cmd(call.input_file, call.output_file,
                                    call.config)]
    /\ UNCHANGED program_vars

UtilityNext ==
    \/ FilterIgnoredFiles
    \/ BuildCmd

UtilitySpec == UtilityInit /\ [][UtilityNext]_vars

(***************************************************************************)
(* Properties.                                                             *)
(***************************************************************************)
\* the record the store holds in memory for a relative path
Record(rel) == metadata.processed_files[rel]
HasRecord(rel, status) ==
    /\ rel \in DOMAIN metadata.processed_files
    /\ Get(Record(rel), "status", "success") = status

IdempotenceUnderResolvedRoot ==
    (pc = "done" /\ hist.valid /\ resolve_root(run.input_dir) = run.input_dir) =>
        /\ counts.success_count + counts.fail_count = 0
        /\ counts.skip_count = Len(Discovered)
        /\ PersistedProcessedFiles = hist.processed_files

\* C2: for a file whose record has status failed, should_skip_file is false
\* for every current configuration and whether or not the output file
\* exists, so the loop never skips it.
C2_RetryOnFailure ==
    pc = "loop" =>
        \A rel \in Rels :
            HasRecord(rel, "failed") =>
                \A input_dir \in Roots, output_exists \in BOOLEAN, config \in Configs :
                    ~should_skip_file(metadata, InputFile(input_dir, rel),
                                      output_exists, config)

\* C2 happens: the loop is at a file with a failed record whose output file
\* exists and whose stored configuration is the current one.
C2_Witness ==
    /\ AtFile
    /\ HasRecord(CurrentRel, "failed")
    /\ OutputExists
    /\ Pop(stored_config(Record(CurrentRel)), "error_log_file_path")
           = Pop(current_config_dict(run.config), "error_log_file_path")

\* the video, audio and processing sections of a configuration or a record
Sections(d) == <<d.video, d.audio, d.processing>>

\* C3: for a file with a success record and an existing output file,
\* should_skip_file is false for every current configuration that differs
\* from the recorded one in a field of the video, audio or processing
\* section, and true for every one that differs from it in the logging
\* section only.
C3_ConfigSensitivity ==
    pc = "loop" =>
        \A rel \in Rels :
            HasRecord(rel, "success") =>
                \A config \in Configs :
                    LET skip == should_skip_file(metadata,
                                    InputFile(run.input_dir, rel), TRUE, config)
                    IN  /\ Sections(config) # Sections(Record(rel)) => ~skip
                        /\ (/\ Sections(config) = Sections(Record(rel))
                            /\ config.files = Record(rel).files) => skip

\* C3 happens: the loop is at a file with a success record and an output
\* file, converted under CRF 23, and the current configuration has CRF 20.
C3_Witness ==
    /\ AtFile
    /\ HasRecord(CurrentRel, "success")
    /\ OutputExists
    /\ Record(CurrentRel).video.crf = 23
    /\ run.config.video.crf = 20

\* a step that is the start of a run
StartupStep == pc \in Stopped /\ pc' \in {"loop", "aborted"}

\* a step that is a call of initialize at the start of a run, the
\* transcoder found and the configuration loaded
InitializeStep ==
    /\ StartupStep
    /\ check_ffmpeg(run'.ffmpeg)
    /\ run'.config_file.kind = "data"
    /\ load_config(run'.config_file).raised = None

\* the root the store has been bound to: the one of the metadata file, or
\* the one of the first initialize that returned while there was none
BoundRoot ==
    IF Persisted THEN files[metadata_file].doc.input_dir ELSE first_root

\* C4: once initialize has returned for one input root, a later initialize
\* for another root (the metadata file neither deleted nor damaged in
\* between, no exception having ended the run before) fails with the root
\* mismatch and leaves the files as they were.
C4_RootBinding ==
    [][(/\ InitializeStep
        /\ raised = None
        /\ BoundRoot # None
        /\ absolute(run'.input_dir) # BoundRoot)
       => (pc' = "aborted" /\ raised' = "ValueError" /\ files' = files)]_vars

\* C5: the metadata file never holds an incomplete document, and a step
\* inside a flush (the kill of the process included) leaves it as it was or,
\* at the rename, holding the complete document being flushed.
C5_AtomicPersistence ==
    [][/\ files'[metadata_file].kind # "partial"
       /\ pc \in Saving =>
            \/ files'[metadata_file] = files[metadata_file]
            \/ /\ pc = "save_replace"
               /\ files'[metadata_file] = DocFile(metadata)]_vars

\* C5 happens: the process was killed inside a flush, the temporary file
\* half written, and the metadata file holds the previous flush.
C5_Witness ==
    /\ pc = "idle"
    /\ files[temp_file].kind = "partial"
    /\ files[metadata_file].kind = "doc"

\* two dicts hold the same record for a key, or both none
SameAt(d1, d2, k) ==
    /\ k \in DOMAIN d1 <=> k \in DOMAIN d2
    /\ k \in DOMAIN d1 => d1[k] = d2[k]

\* C6: between two files, unless a flush has failed, the persisted
\* processed_files is the one in memory; inside a flush it differs at most
\* in the record of the file being processed.
C6_FlushPerRecord ==
    /\ (pc = "loop" /\ ~dirty) =>
            PersistedProcessedFiles = metadata.processed_files
    /\ (pc \in Saving /\ ~dirty) =>
            \A rel \in Rels \ {CurrentRel} :
                SameAt(PersistedProcessedFiles, metadata.processed_files, rel)

\* C6 happens: both files have been recorded, one as failed and one as
\* successful, every flush completed.
C6_Witness ==
    /\ pc = "loop"
    /\ ~dirty
    /\ idx > Len(Discovered)
    /\ \E r1, r2 \in Rels : HasRecord(r1, "success") /\ HasRecord(r2, "failed")

C8_MissingOutputNeverSkipped ==
    pc = "loop" =>
        \A rel \in Rels, input_dir \in Roots, config \in Configs :
            ~should_skip_file(metadata, InputFile(input_dir, rel), FALSE, config)

\* C8 happens: the loop is at a file with a success record of the current
\* configuration whose output file is gone.
C8_Witness ==
    /\ AtFile
    /\ HasRecord(CurrentRel, "success")
    /\ ~OutputExists
    /\ stored_config(Record(CurrentRel)) = current_config_dict(run.config)

\* C9: whenever the metadata file is no usable store document, initialize
\* returns without raising, the store empty and bound to the current root.
C9_CorruptStateNotFatal ==
    [][(InitializeStep /\ files[metadata_file].kind \in CorruptKinds)
       => /\ pc' = "loop"
          /\ raised' = None
          /\ metadata' = [EmptyMetadata EXCEPT
                             !.input_dir = absolute(run'.input_dir)]]_vars

\* C10: no step of the loop or of a record update ends the run with an
\* exception.
C10_StoreErrorsNotFatal ==
    [][(pc \in Running) => (pc' # "aborted")]_vars

\* the files the run has handled so far
Handled == counts.success_count + counts.fail_count + counts.skip_count

RootMismatch ==
    /\ InitializeStep
    /\ files[metadata_file].kind = "doc"
    /\ files[metadata_file].doc.input_dir \notin {None, absolute(run'.input_dir)}

UnderRoot == relative_to(resolve(CurrentFile), metadata.input_dir) # NotRelative

\* the step counts the file the loop is at under the given counter
Counted(counter) == counts'[counter] = counts[counter] + 1

C14_BindOnce ==
    [][(Persisted' /\ last_root # None) =>
          files'[metadata_file].doc.input_dir = last_root]_vars

\* C14, for a metadata file that stays a store document: every persisted
\* document is bound to a root, the input_dir of the metadata file never
\* changes from one document to the next, and the store of a running
\* process keeps the root initialize has returned with.
C14_BindOnceWhileLoadable ==
    [][/\ Persisted' => files'[metadata_file].doc.input_dir # None
       /\ (Persisted /\ Persisted') =>
             files'[metadata_file].doc.input_dir
                 = files[metadata_file].doc.input_dir
       /\ (pc \in Running /\ pc' \in Running) =>
             metadata'.input_dir = metadata.input_dir]_vars

\* C14 happens: a later run has loaded a store that holds records and is
\* bound to its root, and has replaced the metadata file once more.
C14_Witness ==
    /\ pc = "loop"
    /\ idx > 1
    /\ ~dirty
    /\ Persisted
    /\ hist.valid
    /\ files[metadata_file].doc.input_dir = RootB
    /\ files[metadata_file].doc.last_updated = isoformat(now - 1)

\* C15: for a transcoder run that exits with status zero convert_file
\* returns success and no error output; for one that exits nonzero it
\* returns failure and an error output that is neither null nor empty: the
\* diagnostic stream when the transcoder has printed one, a placeholder
\* otherwise.  The loop counts the file accordingly.
C15_ConvertFileResult ==
    conversion.called =>
        LET result == conversion.result
        IN  /\ conversion.returncode = 0 =>
                /\ result.success
                /\ result.error_output = None
                /\ outcome = "success_count"
            /\ conversion.returncode # 0 =>
                /\ ~result.success
                /\ result.error_output \notin {None, ""}
                /\ conversion.stderr # "" =>
                       result.error_output = conversion.stderr
                /\ outcome = "fail_count"

\* C15 happens: the transcoder has exited nonzero without a word on its
\* diagnostic stream.
C15_Witness ==
    /\ conversion.called
    /\ conversion.returncode = 1
    /\ conversion.stderr = ""

\* C16: every failed record of the persisted processed_files carries an
\* error_output field that is neither null nor empty.
C16_FailedRecordsCarryErrorOutput ==
    Persisted =>
        \A rel \in DOMAIN PersistedProcessedFiles :
            PersistedProcessedFiles[rel].status = "failed" =>
                /\ "error_output" \in DOMAIN PersistedProcessedFiles[rel]
                /\ Get(PersistedProcessedFiles[rel], "error_output", None)
                       \notin {None, ""}

C19_SkipDependsOnThreeSections ==
    pc = "loop" =>
        /\ \A rel \in DOMAIN metadata.processed_files :
              DOMAIN Record(rel) \cap {"logging", "files"} = {}
        /\ \A rel \in Rels, output_exists \in BOOLEAN, c1 \in Configs, c2 \in Configs :
              Sections(c1) = Sections(c2) =>
                  should_skip_file(metadata, InputFile(run.input_dir, rel),
                                   output_exists, c1)
                      = should_skip_file(metadata, InputFile(run.input_dir, rel),
                                         output_exists, c2)

\* C20: between two files, the error_log_file_path of every failed record
\* of the store names an artifact that exists, that was last written by a
\* failure of the record's own file and that holds the error output of
\* that failure.
C20_OneArtifactPerFailedInput ==
    pc = "loop" =>
        \A rel \in DOMAIN metadata.processed_files :
            HasRecord(rel, "failed") =>
                LET path == Get(Record(rel), "error_log_file_path", None)
                IN  /\ path \in DOMAIN failed_logs
                    /\ path \in DOMAIN last_failure
                    /\ last_failure[path].file = rel
                    /\ failed_logs[path] = last_failure[path].error_output \o "\n"

\* the step is a record update of mark_processed or mark_failed going on to
\* its flush
RecordUpdate == pc = "loop" /\ pc' = "save_open"

\* the keys of a Processing Record
RecordKeys ==
    (DOMAIN model_dump(BaseConfig) \ {"logging"})
        \cup {"processed_at", "status", "error_log_file_path"}

\* C21: a record update replaces the whole record of the file it is for and
\* nothing else.  The new record has the keys of a Processing Record and no
\* other, holds the sections of the run's configuration and a processed_at
\* that no earlier record of the file had; after a failure its status is
\* failed and it carries the artifact's path, after a success its status is
\* success and its error_log_file_path is null, whatever the record before
\* was.  The records of the other paths and the bound input_dir are as they
\* were.
C21_RecordReplacedWhole ==
    [][RecordUpdate =>
          LET old == metadata.processed_files
              new == metadata'.processed_files
              r == new[CurrentRel]
          IN  /\ CurrentRel \in DOMAIN new
              /\ DOMAIN r = RecordKeys
              /\ \A k \in RecordKeys \ {"processed_at", "status",
                                         "error_log_file_path"} :
                    r[k] = model_dump(run.config)[k]
              /\ r.processed_at = isoformat(now)
              /\ CurrentRel \in DOMAIN old
                    => r.processed_at # old[CurrentRel].processed_at
              /\ outcome' = "success_count"
                    => r.status = "success" /\ r.error_log_file_path = None
              /\ outcome' = "fail_count"
                    => /\ r.status = "failed"
                       /\ r.error_log_file_path # None
                       /\ r.error_log_file_path \in DOMAIN failed_logs'
              /\ outcome' \in {"success_count", "fail_count"}
              /\ \A rel \in Rels \ {CurrentRel} : SameAt(new, old, rel)
              /\ metadata'.input_dir = metadata.input_dir]_vars

\* C21 happens: a file recorded as failed on disk has been converted again,
\* with success, and its record in memory, about to be flushed, is a
\* success record without an artifact path.
C21_Witness ==
    /\ pc = "save_open"
    /\ outcome = "success_count"
    /\ CurrentRel \in DOMAIN PersistedProcessedFiles
    /\ PersistedProcessedFiles[CurrentRel].status = "failed"
    /\ PersistedProcessedFiles[CurrentRel].error_log_file_path # None
    /\ HasRecord(CurrentRel, "success")
    /\ Record(CurrentRel).error_log_file_path = None

\* C22: a file that is not under the bound input_dir is never skipped and
\* never recorded.  While the loop is at such a file should_skip_file is
\* false whatever the output file and the configuration, and the step that
\* handles it counts it as a success or a failure and goes straight on to
\* the next file: the store, the metadata file and its temporary sibling,
\* and the artifacts are as they were, and no flush is started.
C22_OutsideRootUntouched ==
    [][(AtFile /\ ~UnderRoot) =>
          /\ \A output_exists \in BOOLEAN, current_config \in RunConfigs :
                ~should_skip_file(metadata, CurrentFile, output_exists,
                                  current_config)
          /\ (pc' \in Running) =>
                /\ pc' = "loop"
                /\ idx' = idx + 1
                /\ Counted("success_count") \/ Counted("fail_count")
                /\ ~Counted("skip_count")
                /\ metadata' = metadata
                /\ files' = files
                /\ failed_logs' = failed_logs]_vars

\* C22 happens: a run started through the link has handled both files, one
\* converted and one failed, none of them under the bound root, and the
\* store holds no record.
C22_Witness ==
    /\ pc = "loop"
    /\ idx > Len(Discovered)
    /\ metadata.input_dir # resolve_root(run.input_dir)
    /\ counts.success_count = 1
    /\ counts.fail_count = 1
    /\ metadata.processed_files = EmptyDict
    /\ failed_logs = EmptyDict

\* C23: the argument list convert_file builds is a function of the input
\* path, the output path and the configuration alone: ffmpeg, -i and the
\* input path, -c:v and the video codec, -crf and the crf in decimal,
\* -pix_fmt and the pixel format, -c:a and the audio codec, -b:a and the
\* audio bitrate, -tag:v and the tag, then -y exactly when
\* processing.overwrite_output is true, then the output path, last.
C23_TranscoderArguments ==
    (call.fn = "convert_file" /\ call.done) =>
        LET argv == call.returned
            config == call.config
            overwrite == config.processing.overwrite_output
        IN  /\ Len(argv) = IF overwrite THEN 17 ELSE 16
            /\ SubSeq(argv, 1, 15) =
                   <<"ffmpeg",
                     "-i", path_str(call.input_file),
                     "-c:v", config.video.codec,
                     "-crf", str_int(config.video.crf),
                     "-pix_fmt", config.video.pixel_format,
                     "-c:a", config.audio.codec,
                     "-b:a", config.audio.bitrate,
                     "-tag:v", config.video.tag>>
            /\ config.video.crf = 23 => argv[7] = "23"
            /\ overwrite <=> argv[16] = "-y"
            /\ overwrite <=> \E i \in 1..Len(argv) : argv[i] = "-y"
            /\ argv[Len(argv)] = path_str(call.output_file)

\* C23 happens: the argument list has been built for a configuration that
\* does not overwrite output files, and for one that does.
C23_Witness ==
    /\ call.fn = "convert_file"
    /\ call.done
    /\ ~call.config.processing.overwrite_output
    /\ call.input_file = InputFile(RootL, <<"a", "b.mp4">>)
    /\ call.returned[3] = "/link/A/a/b.mp4"
    /\ Len(call.returned) = 16

\* C24: filter_ignored_files returns, in their order, exactly the files
\* whose path string none of the patterns that compile matches; the
\* patterns that do not compile could as well not be in the list, and with
\* no pattern at all the list of files is returned as it is.
C24_FilterIgnoredFiles ==
    (call.fn = "filter_ignored_files" /\ call.done) =>
        LET video_files == call.video_files
            ignore_patterns == call.ignore_patterns
            compiles(pattern) == ~re_error(pattern)
            valid == SelectSeq(ignore_patterns, compiles)
            kept(file_path) ==
                \A i \in 1..Len(valid) :
                    ~re_search(valid[i], path_str(file_path))
        IN  /\ call.returned = SelectSeq(video_files, kept)
            /\ call.returned = filter_ignored_files(video_files, valid)
            /\ ignore_patterns = <<>> => call.returned = video_files

\* C24 happens: of two files, the one in the folder that the second pattern
\* names has been filtered out, the first pattern being a shell glob that
\* does not compile.
C24_Witness ==
    /\ call.fn = "filter_ignored_files"
    /\ call.done
    /\ call.ignore_patterns = <<"*.mp4", "a/">>
    /\ call.video_files = <<InputFile(RootA, <<"a", "b.mp4">>),
                            InputFile(RootA, <<"a_b.mp4">>)>>
    /\ call.returned = <<InputFile(RootA, <<"a_b.mp4">>)>>

\* C25: should_skip_file is read-only.  While the loop is at a file, a call
\* for any discovered file, with the output file there or not and with any
\* configuration of a run, leaves the store in memory as it was: input_dir,
\* processed_files and every field of every record; and the step in which
\* the loop has called it, whatever it returned, leaves the metadata file
\* and its temporary sibling as they were, and the store too when the file
\* is skipped.
C25_ShouldSkipFileReadOnly ==
    [][AtFile =>
          /\ \A rel \in Rels, output_exists \in BOOLEAN, current_config \in RunConfigs :
                should_skip_file_store(metadata,
                                       InputFile(run.input_dir, rel),
                                       output_exists, current_config)
                    = metadata
          /\ (pc' \in Running) => files' = files
          /\ Counted("skip_count") => metadata' = metadata]_vars

\* C25 happens: the run has skipped its first file, whose record went
\* through the comparison of should_skip_file, and the store still holds
\* the record as the metadata file has it, timestamp and status included.
C25_Witness ==
    /\ pc = "loop"
    /\ idx = 2
    /\ counts.skip_count = 1
    /\ HasRecord(Discovered[1], "success")
    /\ Persisted
    /\ Record(Discovered[1]) = PersistedProcessedFiles[Discovered[1]]
    /\ Record(Discovered[1]).processed_at = isoformat(0)

\* the three counters of a run
Counters == {"success_count", "fail_count", "skip_count"}

====
